---- MODULE Spec2Model ----
(***************************************************************************)
(* Model of the request builder of rustpixiv (src/src/lib.rs):             *)
(* PixivRequestBuilder (endpoint constructors, typed setters, raw_param,   *)
(* build) and PixivRequest::set_query_params.                              *)
(*                                                                         *)
(* Strings are TLA+ strings, read character by character with SubSeq and   *)
(* built with \o, so that rendering, URL parsing, percent-encoding and     *)
(* date validation are computed, not assumed.                              *)
(***************************************************************************)
EXTENDS Integers, Sequences, FiniteSets, TLC

(***************************************************************************)
(* Bounds of the model.                                                    *)
(***************************************************************************)
\* Setter calls applied to one builder before build.
MaxSetters == 2
\* Number of HashMap iteration orders tried by build for each map.
NumOrders == 2

(***************************************************************************)
(* String helpers.                                                         *)
(***************************************************************************)
Char(s, i) == SubSeq(s, i, i)

\* The part of s from position i to the end.
StrFrom(s, i) == SubSeq(s, i, Len(s))

\* Index of the first occurrence of the character c in s at or after i; 0 if none.
RECURSIVE FindFrom(_, _, _)
FindFrom(s, c, i) ==
    IF i > Len(s) THEN 0
    ELSE IF Char(s, i) = c THEN i
    ELSE FindFrom(s, c, i + 1)

DigitChars == "0123456789"

IsDigit(c) == c \in {"0", "1", "2", "3", "4", "5", "6", "7", "8", "9"}

DigitVal(c) ==
    CASE c = "0" -> 0 [] c = "1" -> 1 [] c = "2" -> 2 [] c = "3" -> 3
      [] c = "4" -> 4 [] c = "5" -> 5 [] c = "6" -> 6 [] c = "7" -> 7
      [] c = "8" -> 8 [] c = "9" -> 9

\* usize::to_string: decimal rendering, no sign, no leading zeros.
RECURSIVE to_string(_)
to_string(n) ==
    IF n < 10 THEN Char(DigitChars, n + 1)
    ELSE to_string(n \div 10) \o Char(DigitChars, (n % 10) + 1)

\* utils::comma_delimited on string-like items: join with ",".
RECURSIVE comma_delimited(_)
comma_delimited(items) ==
    IF Len(items) = 0 THEN ""
    ELSE IF Len(items) = 1 THEN items[1]
    ELSE items[1] \o "," \o comma_delimited(Tail(items))

\* utils::comma_delimited on identifiers: each is rendered in decimal first.
comma_delimited_ids(ids) ==
    comma_delimited([i \in DOMAIN ids |-> to_string(ids[i])])

(***************************************************************************)
(* Enumerated option types and their as_str.                               *)
(***************************************************************************)
PublicityVariants == {"Public", "Private"}

Publicity_as_str(v) ==
    CASE v = "Public" -> "public"
      [] v = "Private" -> "private"

RankingTypeVariants == {"All", "Illust", "Manga", "Ugoira"}

RankingType_as_str(v) ==
    CASE v = "All" -> "all"
      [] v = "Illust" -> "illust"
      [] v = "Manga" -> "manga"
      [] v = "Ugoira" -> "ugoira"

RankingModeVariants ==
    {"Daily", "Weekly", "Monthly", "Rookie", "Original", "Male", "Female",
     "DailyR18", "WeeklyR18", "MaleR18", "FemaleR18", "R18G"}

\* Mutant: DailyR18 gets the token of Daily.
RankingMode_as_str_collapsed(v) ==
    CASE v = "Daily" -> "daily"
      [] v = "Weekly" -> "weekly"
      [] v = "Monthly" -> "monthly"
      [] v = "Rookie" -> "rookie"
      [] v = "Original" -> "original"
      [] v = "Male" -> "male"
      [] v = "Female" -> "female"
      [] v = "DailyR18" -> "daily"
      [] v = "WeeklyR18" -> "weekly_r18"
      [] v = "MaleR18" -> "male_r18"
      [] v = "FemaleR18" -> "female_r18"
      [] v = "R18G" -> "r18g"

RankingMode_as_str(v) ==
    CASE v = "Daily" -> "daily"
      [] v = "Weekly" -> "weekly"
      [] v = "Monthly" -> "monthly"
      [] v = "Rookie" -> "rookie"
      [] v = "Original" -> "original"
      [] v = "Male" -> "male"
      [] v = "Female" -> "female"
      [] v = "DailyR18" -> "daily_r18"
      [] v = "WeeklyR18" -> "weekly_r18"
      [] v = "MaleR18" -> "male_r18"
      [] v = "FemaleR18" -> "female_r18"
      [] v = "R18G" -> "r18g"

SearchPeriodVariants == {"All", "Day", "Week", "Month"}

SearchPeriod_as_str(v) ==
    CASE v = "All" -> "all"
      [] v = "Day" -> "day"
      [] v = "Week" -> "week"
      [] v = "Month" -> "month"

SearchModeVariants == {"Text", "Tag", "ExactTag", "Caption"}

SearchMode_as_str(v) ==
    CASE v = "Text" -> "text"
      [] v = "Tag" -> "tag"
      [] v = "ExactTag" -> "exact_tag"
      [] v = "Caption" -> "caption"

SearchOrderVariants == {"Descending", "Ascending"}

SearchOrder_as_str(v) ==
    CASE v = "Descending" -> "desc"
      [] v = "Ascending" -> "asc"

(***************************************************************************)
(* http::Uri: scheme, authority, path and query.  An empty scheme or       *)
(* authority stands for None; hasQuery tells a present (maybe empty) query *)
(* from an absent one.                                                     *)
(***************************************************************************)
\* Position where the authority of rest ends: the first "/" or "?", else the end.
AuthorityEnd(rest) ==
    LET slash == FindFrom(rest, "/", 1)
        qmark == FindFrom(rest, "?", 1)
    IN  IF slash = 0 /\ qmark = 0 THEN Len(rest) + 1
        ELSE IF slash = 0 THEN qmark
        ELSE IF qmark = 0 THEN slash
        ELSE IF slash < qmark THEN slash ELSE qmark

\* http::uri::PathAndQuery::from_shared: split at the first "?".
ParsePathAndQuery(pq) ==
    LET qmark == FindFrom(pq, "?", 1)
    IN  IF qmark = 0
        THEN [path |-> pq, query |-> "", hasQuery |-> FALSE]
        ELSE [path |-> SubSeq(pq, 1, qmark - 1),
              query |-> StrFrom(pq, qmark + 1),
              hasQuery |-> TRUE]

\* Position of "://" in s, 0 if none.
RECURSIVE SchemeEnd(_, _)
SchemeEnd(s, i) ==
    IF i + 2 > Len(s) THEN 0
    ELSE IF SubSeq(s, i, i + 2) = "://" THEN i
    ELSE SchemeEnd(s, i + 1)

\* Uri::from_static / Uri::try_from / Uri::from_shared on the three forms the
\* builder meets: origin form "/p?q", absolute form "s://a/p?q", authority form "a".
ParseUri(s) ==
    IF Len(s) > 0 /\ Char(s, 1) = "/"
    THEN LET pq == ParsePathAndQuery(s)
         IN  [scheme |-> "", authority |-> "", path |-> pq.path,
              query |-> pq.query, hasQuery |-> pq.hasQuery]
    ELSE LET se == SchemeEnd(s, 1)
         IN  IF se = 0
             THEN [scheme |-> "", authority |-> s, path |-> "",
                   query |-> "", hasQuery |-> FALSE]
             ELSE LET rest == StrFrom(s, se + 3)
                      ae == AuthorityEnd(rest)
                      pq == ParsePathAndQuery(StrFrom(rest, ae))
                  IN  [scheme |-> SubSeq(s, 1, se - 1),
                       authority |-> SubSeq(rest, 1, ae - 1),
                       path |-> pq.path, query |-> pq.query,
                       hasQuery |-> pq.hasQuery]

\* Uri::has_path, which decides whether into_parts gives Some(path_and_query).
HasPath(uri) == uri.path # "" \/ uri.scheme # ""

\* PathAndQuery::path: an empty path of a URI with a scheme reads as "/".
PathOf(uri) == IF uri.path = "" /\ uri.scheme # "" THEN "/" ELSE uri.path

\* The URI written back as a string.
UriToString(uri) ==
    (IF uri.scheme # "" THEN uri.scheme \o "://" ELSE "")
    \o uri.authority \o uri.path
    \o (IF uri.hasQuery THEN "?" \o uri.query ELSE "")

(***************************************************************************)
(* serde_urlencoded::to_string over the parameter map: every entry becomes *)
(* key=value, entries are joined by "&", keys and values are serialised    *)
(* with the application/x-www-form-urlencoded byte serialiser.             *)
(***************************************************************************)
\* Characters the serialiser leaves as they are.
UnreservedChars ==
    {"a", "b", "c", "d", "e", "f", "g", "h", "i", "j", "k", "l", "m", "n", "o",
     "p", "q", "r", "s", "t", "u", "v", "w", "x", "y", "z",
     "A", "B", "C", "D", "E", "F", "G", "H", "I", "J", "K", "L", "M", "N", "O",
     "P", "Q", "R", "S", "T", "U", "V", "W", "X", "Y", "Z",
     "0", "1", "2", "3", "4", "5", "6", "7", "8", "9", "*", "-", ".", "_"}

\* ASCII codes of the other characters that occur in the model's strings.
ByteOf(c) ==
    CASE c = "#" -> 35
      [] c = "%" -> 37
      [] c = "&" -> 38
      [] c = "+" -> 43
      [] c = "," -> 44
      [] c = "/" -> 47
      [] c = ":" -> 58
      [] c = "=" -> 61
      [] c = "?" -> 63

HexDigits == "0123456789ABCDEF"

PercentEncode(c) ==
    "%" \o Char(HexDigits, (ByteOf(c) \div 16) + 1)
        \o Char(HexDigits, (ByteOf(c) % 16) + 1)

\* byte_serialize of one character.
EncodeChar(c) ==
    IF c \in UnreservedChars THEN c
    ELSE IF c = " " THEN "+"
    ELSE PercentEncode(c)

RECURSIVE EncodeFrom(_, _)
EncodeFrom(s, i) ==
    IF i > Len(s) THEN ""
    ELSE EncodeChar(Char(s, i)) \o EncodeFrom(s, i + 1)

\* Mutant: the string is written as it is, nothing escaped.
byte_serialize_raw(s) == s

byte_serialize(s) == EncodeFrom(s, 1)

\* The pairs of the map in the iteration order `order`, serialised.
RECURSIVE SerializePairs(_, _, _)
SerializePairs(params, order, i) ==
    IF i > Len(order) THEN ""
    ELSE (IF i > 1 THEN "&" ELSE "")
         \o byte_serialize(order[i]) \o "=" \o byte_serialize(params[order[i]])
         \o SerializePairs(params, order, i + 1)

serde_urlencoded_to_string(params, order) == SerializePairs(params, order, 1)

(***************************************************************************)
(* HashMap<&'static str, String>.                                          *)
(***************************************************************************)
EmptyMap == [k \in {} |-> ""]

\* Mutant: an entry that is there already is kept as it is.
Insert_keep_first(m, key, value) ==
    [k \in (DOMAIN m) \cup {key} |-> IF k \in DOMAIN m THEN m[k] ELSE value]

\* HashMap::insert: the key's entry is added or replaced.
Insert(m, key, value) ==
    [k \in (DOMAIN m) \cup {key} |-> IF k = key THEN value ELSE m[k]]

\* Iterator::collect into a HashMap: the pairs are inserted in order.
RECURSIVE CollectFrom(_, _)
CollectFrom(pairs, n) ==
    IF n = 0 THEN EmptyMap
    ELSE Insert(CollectFrom(pairs, n - 1), pairs[n][1], pairs[n][2])

Collect(pairs) == CollectFrom(pairs, Len(pairs))

\* Every key a map of the model can hold, in a fixed reference order.
KeyVocabulary ==
    <<"date", "delete_ids", "ids", "illust_id", "image_sizes",
      "include_contacts", "include_profile", "include_sanity_level",
      "include_stats", "include_workspace", "max_id", "mode", "order", "page",
      "per_page", "period", "profile_image_sizes", "publicity", "q",
      "relation", "show_r18", "sort", "tag name", "target_user_id", "type",
      "types", "value", "work_id">>

KeysInOrder(S) == SelectSeq(KeyVocabulary, LAMBDA k : k \in S)

Rotate(seq, r) ==
    [i \in 1..Len(seq) |-> seq[((i - 1 + r) % Len(seq)) + 1]]

Reverse(seq) == [i \in 1..Len(seq) |-> seq[Len(seq) + 1 - i]]

\* The order in which a HashMap is iterated is unspecified.  The model tries
\* NumOrders of them: rotations of the reference order, forwards and backwards.
IterationOrder(S, i) ==
    LET base == KeysInOrder(S)
    IN  IF Len(base) = 0 THEN base
        ELSE IF i % 2 = 0 THEN Rotate(base, i \div 2)
        ELSE Reverse(Rotate(base, i \div 2))

(***************************************************************************)
(* PixivRequest.                                                           *)
(***************************************************************************)
\* Mutant: the method given is dropped and every request is a GET.
PixivRequest_new_get(method, url, headers) ==
    [method |-> "GET", url |-> url, headers |-> headers]

PixivRequest_new(method, url, headers) ==
    [method |-> method, url |-> url, headers |-> headers]

\* Uri::from_parts: a scheme needs an authority and a path; an authority with
\* a path needs a scheme.
FromPartsOk(uri, hasPathAndQuery) ==
    IF uri.scheme # ""
    THEN uri.authority # "" /\ hasPathAndQuery
    ELSE ~(uri.authority # "" /\ hasPathAndQuery)

\* Mutant: the arm for a URI without a path is taken for every URI.
set_query_params_no_path(request, params, order) ==
    LET pq == ParsePathAndQuery("?" \o serde_urlencoded_to_string(params, order))
        uri == [scheme |-> request.url.scheme,
                authority |-> request.url.authority,
                path |-> pq.path, query |-> pq.query, hasQuery |-> pq.hasQuery]
    IN  [ok |-> FromPartsOk(uri, TRUE),
         request |-> [request EXCEPT !.url = uri]]

\* PixivRequest::set_query_params.  ok = FALSE is the panic of the Err arm.
set_query_params(request, params, order) ==
    LET query == serde_urlencoded_to_string(params, order)
        buffer == IF HasPath(request.url)
                  THEN PathOf(request.url) \o "?" \o query
                  ELSE "?" \o query
        pq == ParsePathAndQuery(buffer)
        uri == [scheme |-> request.url.scheme,
                authority |-> request.url.authority,
                path |-> pq.path, query |-> pq.query, hasQuery |-> pq.hasQuery]
    IN  [ok |-> FromPartsOk(uri, TRUE),
         request |-> [request EXCEPT !.url = uri]]

(***************************************************************************)
(* PixivRequestBuilder: new, the typed setters and raw_param.              *)
(***************************************************************************)
RefererValue == "http://spapi.pixiv.net/"

\* Mutant: the request is seeded with an authorization header as well.
PixivRequestBuilder_new_with_auth(method, url, params) ==
    [request |-> PixivRequest_new(method, url,
                    [h \in {"referer", "authorization"} |->
                        IF h = "referer" THEN RefererValue ELSE "Bearer"]),
     params |-> params]

PixivRequestBuilder_new(method, url, params) ==
    [request |-> PixivRequest_new(method, url, [h \in {"referer"} |-> RefererValue]),
     params |-> params]

\* Mutant: an empty value is not stored.
raw_param_skip_empty(self, key, value) ==
    IF value = "" THEN self
    ELSE [self EXCEPT !.params = Insert(@, key, value)]

raw_param(self, key, value) ==
    [self EXCEPT !.params = Insert(@, key, value)]

page(self, value) == raw_param(self, "page", to_string(value))

per_page(self, value) == raw_param(self, "value", to_string(value))

\* Mutant: paging by max_id takes the page parameter out of the map.
max_id_drops_page(self, value) ==
    LET kept == (DOMAIN self.params) \ {"page"}
    IN  raw_param([self EXCEPT !.params = [k \in kept |-> self.params[k]]],
                  "max_id", to_string(value))

max_id(self, value) == raw_param(self, "max_id", to_string(value))

image_sizes(self, values) ==
    raw_param(self, "image_sizes", comma_delimited(values))

profile_image_sizes(self, values) ==
    raw_param(self, "profile_image_sizes", comma_delimited(values))

publicity(self, value) == raw_param(self, "publicity", Publicity_as_str(value))

show_r18(self, value) ==
    IF value THEN raw_param(self, "show_r18", "1")
    ELSE raw_param(self, "show_r18", "0")

include_stats(self, value) ==
    IF value THEN raw_param(self, "include_stats", "true")
    ELSE raw_param(self, "include_stats", "false")

include_sanity_level(self, value) ==
    IF value THEN raw_param(self, "include_sanity_level", "true")
    ELSE raw_param(self, "include_sanity_level", "false")

ranking_mode(self, value) == raw_param(self, "mode", RankingMode_as_str(value))

search_period(self, value) ==
    raw_param(self, "period", SearchPeriod_as_str(value))

\* Mutant: search_mode has a key of its own.
search_mode_own_key(self, value) ==
    raw_param(self, "search_mode", SearchMode_as_str(value))

search_mode(self, value) == raw_param(self, "mode", SearchMode_as_str(value))

search_order(self, value) == raw_param(self, "order", SearchOrder_as_str(value))

search_sort(self, value) == raw_param(self, "sort", value)

search_types(self, values) == raw_param(self, "types", comma_delimited(values))

(***************************************************************************)
(* chrono::NaiveDate::parse_from_str(value, "%Y-%m-%d"), as the date       *)
(* setter uses it: a year of one to four digits, "-", a month of one or    *)
(* two digits, "-", a day of one or two digits, nothing after; the three   *)
(* numbers must name a day of the calendar.                                *)
(***************************************************************************)
\* scan::number(s, 1, max) from position i: the longest run of at most max digits.
RECURSIVE ScanDigits(_, _, _, _)
ScanDigits(s, i, max, acc) ==
    IF max = 0 \/ i > Len(s) \/ ~IsDigit(Char(s, i))
    THEN [val |-> acc, next |-> i]
    ELSE ScanDigits(s, i + 1, max - 1, (acc * 10) + DigitVal(Char(s, i)))

ScanNumber(s, i, max) ==
    LET r == ScanDigits(s, i, max, 0)
    IN  [ok |-> r.next > i, val |-> r.val, next |-> r.next]

\* The literal "-" of the format at position i.
ScanDash(s, i) == i <= Len(s) /\ Char(s, i) = "-"

IsLeapYear(y) == (y % 4 = 0 /\ y % 100 # 0) \/ y % 400 = 0

DaysInMonth(y, m) ==
    IF m = 2 THEN (IF IsLeapYear(y) THEN 29 ELSE 28)
    ELSE IF m \in {4, 6, 9, 11} THEN 30
    ELSE 31

\* NaiveDate::from_ymd_opt.
ValidYmd(y, m, d) == m >= 1 /\ m <= 12 /\ d >= 1 /\ d <= DaysInMonth(y, m)

\* Mutant: the format is checked, the calendar is not.
NaiveDate_parse_format_only(value) ==
    LET y == ScanNumber(value, 1, 4)
    IN  /\ y.ok
        /\ ScanDash(value, y.next)
        /\ LET m == ScanNumber(value, y.next + 1, 2)
           IN  /\ m.ok
               /\ ScanDash(value, m.next)
               /\ LET d == ScanNumber(value, m.next + 1, 2)
                  IN  d.ok /\ d.next = Len(value) + 1

NaiveDate_parse_from_str(value) ==
    LET y == ScanNumber(value, 1, 4)
    IN  /\ y.ok
        /\ ScanDash(value, y.next)
        /\ LET m == ScanNumber(value, y.next + 1, 2)
           IN  /\ m.ok
               /\ ScanDash(value, m.next)
               /\ LET d == ScanNumber(value, m.next + 1, 2)
                  IN  /\ d.ok
                      /\ d.next = Len(value) + 1
                      /\ ValidYmd(y.val, m.val, d.val)

\* The strings given to the date setter.
DateValues ==
    {"2018-2-22", "2018-02-22", "2016-2-29", "2018-2-29", "2018-13-1",
     "2018-2-22x", "not-a-date"}

\* The parse of each of them, computed once.
DateParses == [v \in DateValues |-> NaiveDate_parse_from_str(v)]

\* PixivRequestBuilder::date.  ok = FALSE is the panic of expect().
date(self, value) ==
    [ok |-> DateParses[value], builder |-> raw_param(self, "date", value)]

(***************************************************************************)
(* The endpoint constructors.                                              *)
(***************************************************************************)
BASE_URL == "https://app-api.pixiv.net"

bad_words ==
    PixivRequestBuilder_new("GET",
        ParseUri("https://public-api.secure.pixiv.net/v1.1/bad_words.json"),
        EmptyMap)

work(illust_id) ==
    PixivRequestBuilder_new("GET",
        ParseUri("https://public-api.secure.pixiv.net/v1/works/"
                 \o to_string(illust_id) \o ".json"),
        Collect(<< <<"image_sizes", "px_128x128,small,medium,large,px_480mw">>,
                   <<"include_stats", "true">> >>))

user(user_id) ==
    PixivRequestBuilder_new("GET",
        ParseUri("https://public-api.secure.pixiv.net/v1/users/"
                 \o to_string(user_id) \o ".json"),
        Collect(<< <<"profile_image_sizes", "px_170x170,px_50x50">>,
                   <<"image_sizes", "px_128x128,small,medium,large,px_480mw">>,
                   <<"include_stats", "1">>,
                   <<"include_profile", "1">>,
                   <<"include_workspace", "1">>,
                   <<"include_contacts", "1">> >>))

feed ==
    PixivRequestBuilder_new("GET",
        ParseUri("https://public-api.secure.pixiv.net/v1/me/feeds.json"),
        Collect(<< <<"relation", "all">>,
                   <<"type", "touch_nottext">>,
                   <<"show_r18", "1">> >>))

favorite_works ==
    PixivRequestBuilder_new("GET",
        ParseUri("https://public-api.secure.pixiv.net/v1/me/favorite_works.json"),
        Collect(<< <<"page", "1">>,
                   <<"per_page", "50">>,
                   <<"publicity", "public">>,
                   <<"image_sizes", "px_128x128,px_480mw,large">> >>))

favorite_work_add(work_id) ==
    PixivRequestBuilder_new("POST",
        ParseUri("https://public-api.secure.pixiv.net/v1/me/favorite_works.json"),
        Collect(<< <<"publicity", "public">>,
                   <<"work_id", to_string(work_id)>> >>))

\* Mutant: the identifiers go under the key of following_remove.
favorite_works_remove_delete_ids(work_ids) ==
    PixivRequestBuilder_new("DELETE",
        ParseUri("https://public-api.secure.pixiv.net/v1/me/favorite_works.json"),
        Collect(<< <<"publicity", "public">>,
                   <<"delete_ids", comma_delimited_ids(work_ids)>> >>))

favorite_works_remove(work_ids) ==
    PixivRequestBuilder_new("DELETE",
        ParseUri("https://public-api.secure.pixiv.net/v1/me/favorite_works.json"),
        Collect(<< <<"publicity", "public">>,
                   <<"ids", comma_delimited_ids(work_ids)>> >>))

following_works ==
    PixivRequestBuilder_new("GET",
        ParseUri("https://public-api.secure.pixiv.net/v1/me/following/works.json"),
        Collect(<< <<"page", "1">>,
                   <<"per_page", "30">>,
                   <<"image_sizes", "px_128x128,px480mw,large">>,
                   <<"include_stats", "true">>,
                   <<"include_sanity_level", "true">> >>))

following ==
    PixivRequestBuilder_new("GET",
        ParseUri("https://public-api.secure.pixiv.net/v1/me/following.json"),
        Collect(<< <<"page", "1">>,
                   <<"per_page", "30">>,
                   <<"publicity", "public">> >>))

following_add(user_id) ==
    PixivRequestBuilder_new("POST",
        ParseUri("https://public-api.secure.pixiv.net/v1/me/favorite-users.json"),
        Collect(<< <<"publicity", "public">>,
                   <<"target_user_id", to_string(user_id)>> >>))

following_remove(user_ids) ==
    PixivRequestBuilder_new("DELETE",
        ParseUri("https://public-api.secure.pixiv.net/v1/me/favorite-users.json"),
        Collect(<< <<"publicity", "public">>,
                   <<"delete_ids", comma_delimited_ids(user_ids)>> >>))

\* Mutant: the image sizes of the documentation instead of the code's.
user_works_doc_sizes(user_id) ==
    PixivRequestBuilder_new("GET",
        ParseUri("https://public-api.secure.pixiv.net/v1/users/"
                 \o to_string(user_id) \o "/works.json"),
        Collect(<< <<"page", "1">>,
                   <<"per_page", "30">>,
                   <<"image_sizes", "px_128x128,small,medium,large,px_480mw">>,
                   <<"include_stats", "true">>,
                   <<"include_sanity_level", "true">> >>))

user_works(user_id) ==
    PixivRequestBuilder_new("GET",
        ParseUri("https://public-api.secure.pixiv.net/v1/users/"
                 \o to_string(user_id) \o "/works.json"),
        Collect(<< <<"page", "1">>,
                   <<"per_page", "30">>,
                   <<"image_sizes", "px_128x128,px480mw,large">>,
                   <<"include_stats", "true">>,
                   <<"include_sanity_level", "true">> >>))

user_favorite_works(user_id) ==
    PixivRequestBuilder_new("GET",
        ParseUri("https://public-api.secure.pixiv.net/v1/users/"
                 \o to_string(user_id) \o "/favorite_works.json"),
        Collect(<< <<"page", "1">>,
                   <<"per_page", "30">>,
                   <<"image_sizes", "px_128x128,px480mw,large">>,
                   <<"include_sanity_level", "true">> >>))

user_feed(user_id) ==
    PixivRequestBuilder_new("GET",
        ParseUri("https://public-api.secure.pixiv.net/v1/users/"
                 \o to_string(user_id) \o "/feeds.json"),
        Collect(<< <<"relation", "all">>,
                   <<"type", "touch_nottext">>,
                   <<"show_r18", "1">> >>))

user_following(user_id) ==
    PixivRequestBuilder_new("GET",
        ParseUri("https://public-api.secure.pixiv.net/v1/users/"
                 \o to_string(user_id) \o "/following.json"),
        Collect(<< <<"page", "1">>, <<"per_page", "30">> >>))

ranking(ranking_type) ==
    PixivRequestBuilder_new("GET",
        ParseUri("https://public-api.secure.pixiv.net/v1/ranking/"
                 \o RankingType_as_str(ranking_type) \o ".json"),
        Collect(<< <<"mode", "daily">>,
                   <<"page", "1">>,
                   <<"per_page", "50">>,
                   <<"include_stats", "True">>,
                   <<"include_sanity_level", "True">>,
                   <<"image_sizes", "px_128x128,small,medium,large,px_480mw">>,
                   <<"profile_image_sizes", "px_170x170,px_50x50">> >>))

search_works(query) ==
    PixivRequestBuilder_new("GET",
        ParseUri("https://public-api.secure.pixiv.net/v1/search/works.json"),
        Collect(<< <<"page", "1">>,
                   <<"per_page", "30">>,
                   <<"mode", "text">>,
                   <<"period", "all">>,
                   <<"order", "desc">>,
                   <<"sort", "date">>,
                   <<"types", "illustration,manga,ugoira">>,
                   <<"include_stats", "true">>,
                   <<"include_sanity_level", "true">>,
                   <<"image_sizes", "px_128x128,px480mw,large">>,
                   <<"q", query>> >>))

latest_works ==
    PixivRequestBuilder_new("GET",
        ParseUri("https://public-api.secure.pixiv.net/v1/works.json"),
        Collect(<< <<"page", "1">>,
                   <<"per_page", "30">>,
                   <<"include_stats", "true">>,
                   <<"include_sanity_level", "true">>,
                   <<"image_sizes", "px_128x128,px480mw,large">>,
                   <<"profile_image_sizes", "px_170x170,px_50x50">> >>))

illustration(illust_id) ==
    PixivRequestBuilder_new("GET",
        ParseUri(BASE_URL \o "/v1/illust/detail"),
        Collect(<< <<"illust_id", to_string(illust_id)>> >>))

\* PixivRequestBuilder::build with the map iterated in `order`.
build(self, order) == set_query_params(self.request, self.params, order)

(***************************************************************************)
(* The state machine: one builder from its constructor, through at most    *)
(* MaxSetters setter calls, to build.                                      *)
(*   status     "none" before the constructor, "builder" while the caller  *)
(*              holds a builder, "built" after build returned,             *)
(*              "date_panicked" or "build_panicked" after date or build    *)
(*              aborted                                                    *)
(*   builder    the PixivRequestBuilder; after build it is the value that  *)
(*              was moved into build                                       *)
(*   descriptor the PixivRequest build returned                            *)
(*   calls      the calls made so far, constructor first, as [op, arg]     *)
(*   prev       the builder as it was before the last setter call          *)
(***************************************************************************)
VARIABLES status, builder, descriptor, calls, prev

\* Several builders alive at once (SpecBuilders below):
\*   heap      the parameter maps allocated so far, by address
\*   builders  each builder's request, the address of its map, its calls
VARIABLES heap, builders

\* An IllustrationSearchRequestArg and its iterator (SpecIter below):
\*   search_arg  the value as built by new and the set_ calls
\*   iterator    the IllustrationSearchParamIterator into_iter made of it
\*   yielded     what the calls of next returned so far
VARIABLES search_arg, iterator, yielded

vars == <<status, builder, descriptor, calls, prev>>

buildersVars == <<heap, builders>>

iterVars == <<search_arg, iterator, yielded>>

allVars == <<vars, buildersVars, iterVars>>

NoValue == [none |-> TRUE]

\* Inputs of the calls.
IdValues == {42, 66024340}

UintValues == {2, 50}

SizeLists == {<<>>, <<"large">>, <<"a", "b", "c">>}

IdLists == {<<>>, <<7>>, <<1, 2, 3>>}

SortValues == {"date", "x y&z=%+,"}

QueryValues == {"cat", "a&b=c d"}

\* Method, base URL and parameters given to PixivRequestBuilder::new: base URLs
\* with and without a query, without a path, in origin form and in authority form.
NewInputs ==
    {<<"GET", "https://example.com/a/b?x=1", EmptyMap>>,
     <<"POST", "https://example.com/a/b?x=1", Collect(<< <<"q", "a&b=c d">> >>)>>,
     <<"GET", "https://example.com/a/b",
       Collect(<< <<"tag name", "x,y">>, <<"page", "1">> >>)>>,
     <<"GET", "https://example.com", Collect(<< <<"q", "a&b=c d">> >>)>>,
     <<"GET", "/a/b", Collect(<< <<"page", "1">> >>)>>,
     <<"GET", "example.com", EmptyMap>>}

Init ==
    /\ status = "none"
    /\ builder = NoValue
    /\ descriptor = NoValue
    /\ calls = <<>>
    /\ prev = NoValue
    /\ heap = <<>>
    /\ builders = NoValue
    /\ search_arg = NoValue
    /\ iterator = NoValue
    /\ yielded = <<>>

\* A constructor call returning the builder b.
Construct(op, arg, b) ==
    /\ status = "none"
    /\ status' = "builder"
    /\ builder' = b
    /\ calls' = <<[op |-> op, arg |-> arg]>>
    /\ UNCHANGED <<descriptor, prev, buildersVars, iterVars>>

\* A setter call returning the builder b.
Apply(op, arg, b) ==
    /\ status = "builder"
    /\ Len(calls) <= MaxSetters
    /\ builder' = b
    /\ calls' = Append(calls, [op |-> op, arg |-> arg])
    /\ prev' = builder
    /\ UNCHANGED <<status, descriptor, buildersVars, iterVars>>

New ==
    \E inp \in NewInputs :
        Construct("new", inp,
                  PixivRequestBuilder_new(inp[1], ParseUri(inp[2]), inp[3]))

BadWords == Construct("bad_words", <<>>, bad_words)

Feed == Construct("feed", <<>>, feed)

FavoriteWorks == Construct("favorite_works", <<>>, favorite_works)

FollowingWorks == Construct("following_works", <<>>, following_works)

Following == Construct("following", <<>>, following)

LatestWorks == Construct("latest_works", <<>>, latest_works)

Work == \E id \in IdValues : Construct("work", id, work(id))

User == \E id \in IdValues : Construct("user", id, user(id))

FavoriteWorkAdd == \E id \in IdValues : Construct("favorite_work_add", id, favorite_work_add(id))

FollowingAdd == \E id \in IdValues : Construct("following_add", id, following_add(id))

UserWorks == \E id \in IdValues : Construct("user_works", id, user_works(id))

UserFavoriteWorks == \E id \in IdValues : Construct("user_favorite_works", id, user_favorite_works(id))

UserFeed == \E id \in IdValues : Construct("user_feed", id, user_feed(id))

UserFollowing == \E id \in IdValues : Construct("user_following", id, user_following(id))

Illustration == \E id \in IdValues : Construct("illustration", id, illustration(id))

FavoriteWorksRemove ==
    \E ids \in IdLists :
        Construct("favorite_works_remove", ids, favorite_works_remove(ids))

FollowingRemove ==
    \E ids \in IdLists : Construct("following_remove", ids, following_remove(ids))

Ranking ==
    \E t \in RankingTypeVariants : Construct("ranking", t, ranking(t))

SearchWorks ==
    \E q \in QueryValues : Construct("search_works", q, search_works(q))

Page == \E v \in UintValues : Apply("page", v, page(builder, v))

PerPage == \E v \in UintValues : Apply("per_page", v, per_page(builder, v))

MaxId == \E v \in UintValues : Apply("max_id", v, max_id(builder, v))

ImageSizes == \E v \in SizeLists : Apply("image_sizes", v, image_sizes(builder, v))

ProfileImageSizes == \E v \in SizeLists : Apply("profile_image_sizes", v, profile_image_sizes(builder, v))

Publicity == \E v \in PublicityVariants : Apply("publicity", v, publicity(builder, v))

ShowR18 == \E v \in BOOLEAN : Apply("show_r18", v, show_r18(builder, v))

IncludeStats == \E v \in BOOLEAN : Apply("include_stats", v, include_stats(builder, v))

IncludeSanityLevel == \E v \in BOOLEAN : Apply("include_sanity_level", v, include_sanity_level(builder, v))

RankingMode == \E v \in RankingModeVariants : Apply("ranking_mode", v, ranking_mode(builder, v))

SearchPeriod == \E v \in SearchPeriodVariants : Apply("search_period", v, search_period(builder, v))

SearchMode == \E v \in SearchModeVariants : Apply("search_mode", v, search_mode(builder, v))

SearchOrder == \E v \in SearchOrderVariants : Apply("search_order", v, search_order(builder, v))

SearchSort == \E v \in SortValues : Apply("search_sort", v, search_sort(builder, v))

SearchTypes == \E v \in SizeLists : Apply("search_types", v, search_types(builder, v))

\* date either returns the builder or panics; the panic leaves no builder.
Date ==
    /\ status = "builder"
    /\ Len(calls) <= MaxSetters
    /\ \E v \in DateValues :
        \E r \in {date(builder, v)} :
            \/ r.ok /\ Apply("date", v, r.builder)
            \/ /\ ~r.ok
               /\ status' = "date_panicked"
               /\ builder' = NoValue
               /\ calls' = Append(calls, [op |-> "date", arg |-> v])
               /\ prev' = builder
               /\ UNCHANGED <<descriptor, buildersVars, iterVars>>

\* build consumes the builder; the map is iterated in one of the orders.
Build ==
    /\ status = "builder"
    /\ \E i \in 0..(NumOrders - 1) :
        \E r \in {build(builder, IterationOrder(DOMAIN builder.params, i))} :
            \/ r.ok /\ status' = "built" /\ descriptor' = r.request
            \/ ~r.ok /\ status' = "build_panicked" /\ UNCHANGED descriptor
    /\ UNCHANGED <<builder, calls, prev, buildersVars, iterVars>>

Next ==
    \/ New
    \/ BadWords
    \/ Feed
    \/ FavoriteWorks
    \/ FollowingWorks
    \/ Following
    \/ LatestWorks
    \/ Work
    \/ User
    \/ FavoriteWorkAdd
    \/ FollowingAdd
    \/ UserWorks
    \/ UserFavoriteWorks
    \/ UserFeed
    \/ UserFollowing
    \/ Illustration
    \/ FavoriteWorksRemove
    \/ FollowingRemove
    \/ Ranking
    \/ SearchWorks
    \/ Page
    \/ PerPage
    \/ MaxId
    \/ ImageSizes
    \/ ProfileImageSizes
    \/ Publicity
    \/ ShowR18
    \/ IncludeStats
    \/ IncludeSanityLevel
    \/ RankingMode
    \/ SearchPeriod
    \/ SearchMode
    \/ SearchOrder
    \/ SearchSort
    \/ SearchTypes
    \/ Date
    \/ Build

Spec == Init /\ [][Next]_allVars

(***************************************************************************)
(* Standard query-string parsing (application/x-www-form-urlencoded), the  *)
(* reader the properties below decode a built URL with: split at "&", drop *)
(* empty pieces, split each at its first "=", read "+" as a space and      *)
(* "%XY" as the character with that code.                                  *)
(***************************************************************************)
EscapedChars == {"#", "%", "&", "+", ",", "/", ":", "=", "?"}

HexVal(c) == FindFrom(HexDigits, c, 1) - 1

DecodeEscape(xy) ==
    LET b == (HexVal(Char(xy, 1)) * 16) + HexVal(Char(xy, 2))
    IN  IF \E c \in EscapedChars : ByteOf(c) = b
        THEN CHOOSE c \in EscapedChars : ByteOf(c) = b
        ELSE "%" \o xy

RECURSIVE DecodeFrom(_, _)
DecodeFrom(s, i) ==
    IF i > Len(s) THEN ""
    ELSE IF Char(s, i) = "+" THEN " " \o DecodeFrom(s, i + 1)
    ELSE IF Char(s, i) = "%" /\ i + 2 <= Len(s)
    THEN DecodeEscape(SubSeq(s, i + 1, i + 2)) \o DecodeFrom(s, i + 3)
    ELSE Char(s, i) \o DecodeFrom(s, i + 1)

Decode(s) == DecodeFrom(s, 1)

\* The pieces of s between the occurrences of "&", from position i on.
RECURSIVE SplitAmp(_, _)
SplitAmp(s, i) ==
    LET amp == FindFrom(s, "&", i)
    IN  IF amp = 0 THEN <<StrFrom(s, i)>>
        ELSE <<SubSeq(s, i, amp - 1)>> \o SplitAmp(s, amp + 1)

ParsePair(piece) ==
    LET eq == FindFrom(piece, "=", 1)
    IN  IF eq = 0 THEN <<Decode(piece), "">>
        ELSE <<Decode(SubSeq(piece, 1, eq - 1)), Decode(StrFrom(piece, eq + 1))>>

ParseQuery(q) ==
    LET pieces == SelectSeq(SplitAmp(q, 1), LAMBDA x : x # "")
    IN  [i \in 1..Len(pieces) |-> ParsePair(pieces[i])]

\* The decoded key/value pairs of a URI's query, in the order they appear.
QueryPairs(uri) == IF uri.hasQuery THEN ParseQuery(uri.query) ELSE <<>>

\* The values the decoded query gives for key, one per occurrence.
QueryValuesOf(uri, key) ==
    LET hits == SelectSeq(QueryPairs(uri), LAMBDA pr : pr[1] = key)
    IN  [i \in 1..Len(hits) |-> hits[i][2]]

(***************************************************************************)
(* What the documentation says of the setters and the constructors.        *)
(***************************************************************************)
Last == calls[Len(calls)]

\* A builder is held or was built: the last call returned.
Returned == status \in {"builder", "built"}

TypedSetters ==
    {"page", "per_page", "max_id", "image_sizes", "profile_image_sizes",
     "publicity", "show_r18", "include_stats", "include_sanity_level",
     "ranking_mode", "date", "search_period", "search_mode", "search_order",
     "search_sort", "search_types"}

\* The parameter each setter is documented to set ("Sets the `page` param.").
SetterKey(op) ==
    CASE op = "ranking_mode" -> "mode"
      [] op = "search_period" -> "period"
      [] op = "search_mode" -> "mode"
      [] op = "search_order" -> "order"
      [] op = "search_sort" -> "sort"
      [] op = "search_types" -> "types"
      [] OTHER -> op

\* The string a setter's argument is rendered as.
Rendered(op, arg) ==
    CASE op \in {"page", "per_page", "max_id"} -> to_string(arg)
      [] op \in {"image_sizes", "profile_image_sizes", "search_types"} ->
            comma_delimited(arg)
      [] op = "publicity" -> Publicity_as_str(arg)
      [] op = "show_r18" -> IF arg THEN "1" ELSE "0"
      [] op \in {"include_stats", "include_sanity_level"} ->
            IF arg THEN "true" ELSE "false"
      [] op = "ranking_mode" -> RankingMode_as_str(arg)
      [] op = "search_period" -> SearchPeriod_as_str(arg)
      [] op = "search_mode" -> SearchMode_as_str(arg)
      [] op = "search_order" -> SearchOrder_as_str(arg)
      [] op \in {"date", "search_sort"} -> arg

AllSizes == "px_128x128,small,medium,large,px_480mw"

ProfileSizes == "px_170x170,px_50x50"

\* The defaults listed under "Request Transforms" in each constructor's
\* documentation, as key/value pairs; a boolean or enum default is written
\* as the token its setter gives it.
DocDefaults(op) ==
    CASE op = "bad_words" -> {}
      [] op = "work" ->
            {<<"image_sizes", AllSizes>>, <<"include_stats", "true">>}
      [] op = "user" ->
            {<<"profile_image_sizes", ProfileSizes>>,
             <<"image_sizes", AllSizes>>, <<"include_stats", "true">>}
      [] op \in {"feed", "user_feed", "illustration"} -> {<<"show_r18", "1">>}
      [] op = "favorite_works" ->
            {<<"page", "1">>, <<"per_page", "50">>, <<"publicity", "public">>,
             <<"image_sizes", AllSizes>>}
      [] op \in {"favorite_work_add", "favorite_works_remove",
                 "following_add", "following_remove"} ->
            {<<"publicity", "public">>}
      [] op \in {"following_works", "following", "user_works"} ->
            {<<"page", "1">>, <<"per_page", "30">>, <<"image_sizes", AllSizes>>,
             <<"include_stats", "true">>, <<"include_sanity_level", "true">>}
      [] op = "user_favorite_works" ->
            {<<"page", "1">>, <<"per_page", "30">>, <<"image_sizes", AllSizes>>,
             <<"include_sanity_level", "true">>}
      [] op = "user_following" -> {<<"page", "1">>, <<"per_page", "30">>}
      [] op = "ranking" ->
            {<<"mode", "daily">>, <<"page", "1">>, <<"per_page", "50">>,
             <<"include_stats", "true">>, <<"include_sanity_level", "true">>,
             <<"image_sizes", AllSizes>>,
             <<"profile_image_sizes", ProfileSizes>>}
      [] op = "search_works" ->
            {<<"page", "1">>, <<"per_page", "30">>, <<"mode", "text">>,
             <<"period", "all">>, <<"order", "desc">>, <<"sort", "date">>,
             <<"types", "illustration,manga,ugoira">>,
             <<"include_stats", "true">>, <<"include_sanity_level", "true">>,
             <<"image_sizes", AllSizes>>}
      [] op = "latest_works" ->
            {<<"page", "1">>, <<"per_page", "50">>,
             <<"include_stats", "true">>, <<"include_sanity_level", "true">>,
             <<"image_sizes", AllSizes>>,
             <<"profile_image_sizes", ProfileSizes>>}

\* The entries of a parameter map as key/value pairs.
MapPairs(params) == {<<k, params[k]>> : k \in DOMAIN params}

\* A builder fresh from a catalog constructor.
Fresh == status = "builder" /\ Len(calls) = 1 /\ calls[1].op # "new"

(***************************************************************************)
(* C1 .. C5                                                                *)
(***************************************************************************)
\* C1: last write wins.  When a typed setter is called and its parameter was
\* already in the map (from an endpoint default or an earlier setter call),
\* the map then holds the rendering of the new value under that parameter,
\* and a URL built from it has that parameter once, with the new value.
C1_LastWriteWins ==
    (/\ Returned
     /\ Len(calls) >= 2
     /\ Last.op \in TypedSetters
     /\ SetterKey(Last.op) \in DOMAIN prev.params)
    => /\ builder.params[SetterKey(Last.op)] = Rendered(Last.op, Last.arg)
       /\ status = "built" =>
            QueryValuesOf(descriptor.url, SetterKey(Last.op))
                = <<Rendered(Last.op, Last.arg)>>

\* The decimal strings of the integers the setters are given.
Decimal(n) ==
    CASE n = 2 -> "2"
      [] n = 50 -> "50"
      [] n = 7 -> "7"
      [] n = 42 -> "42"
      [] n = 66024340 -> "66024340"

\* C2: page(n), per_page(n) and max_id(n) each write the decimal rendering
\* of n under the key of their own name and touch no other key; where the
\* key was there already (an endpoint default) the number of parameters
\* stays the same.
C2_IntegerSetterKeys ==
    (Returned /\ Len(calls) >= 2 /\ Last.op \in {"page", "per_page", "max_id"})
    => /\ Last.op \in DOMAIN builder.params
       /\ builder.params[Last.op] = Decimal(Last.arg)
       /\ \A k \in (DOMAIN builder.params) \ {Last.op} :
            k \in DOMAIN prev.params /\ builder.params[k] = prev.params[k]
       /\ Last.op \in DOMAIN prev.params =>
            DOMAIN builder.params = DOMAIN prev.params

\* C3: the map of a builder fresh from a catalog constructor holds every
\* documented default of that constructor, with the documented value.
C3_DocumentedDefaults ==
    Fresh => DocDefaults(calls[1].op) \subseteq MapPairs(builder.params)

C5_QueryIsTheMap ==
    /\ status = "built"
       => LET pairs == QueryPairs(descriptor.url)
          IN  /\ {pairs[i] : i \in 1..Len(pairs)} = MapPairs(builder.params)
              /\ Len(pairs) = Cardinality(DOMAIN builder.params)
    /\ status = "build_panicked"
       => /\ builder.request.url.scheme = ""
          /\ builder.request.url.path = ""
          /\ calls[1].op = "new"

\* A base URL that had a query of its own, a value with reserved characters
\* and an override, built.
C5_Witness ==
    /\ status = "built"
    /\ calls[1].op = "new"
    /\ calls[1].arg[2] = "https://example.com/a/b?x=1"
    /\ Len(calls) = 3
    /\ "q" \in DOMAIN builder.params
    /\ "sort" \in DOMAIN builder.params
    /\ builder.params["sort"] = "x y&z=%+,"

(***************************************************************************)
(* C6 .. C10                                                               *)
(***************************************************************************)
\* C6: build changes the query and nothing else: for a base URL with a
\* path, the built URL has the base URL's scheme, authority and path, and
\* the method and headers are the builder's.
C6_PathUnchanged ==
    (status = "built" /\ builder.request.url.path # "")
    => /\ descriptor.url.scheme = builder.request.url.scheme
       /\ descriptor.url.authority = builder.request.url.authority
       /\ descriptor.url.path = builder.request.url.path
       /\ descriptor.method = builder.request.method
       /\ descriptor.headers = builder.request.headers

C6_Witness ==
    /\ status = "built"
    /\ calls[1] = [op |-> "work", arg |-> 66024340]
    /\ descriptor.url.path = "/v1/works/66024340.json"
    /\ descriptor.url.hasQuery
    /\ descriptor.url.query # ""

ListSetters == {"image_sizes", "profile_image_sizes", "search_types"}

\* The lists the list setters are given, joined by hand.
ExpectedJoin(list) ==
    CASE list = <<>> -> ""
      [] list = <<"large">> -> "large"
      [] list = <<"a", "b", "c">> -> "a,b,c"

\* C7: image_sizes, profile_image_sizes and search_types store the caller's
\* elements joined by "," in the caller's order; one element is stored
\* alone; an empty list stores the empty string, and the key is in the map
\* and in the built query all the same.
C7_ListSetters ==
    (Returned /\ Len(calls) >= 2 /\ Last.op \in ListSetters)
    => /\ SetterKey(Last.op) \in DOMAIN builder.params
       /\ builder.params[SetterKey(Last.op)] = ExpectedJoin(Last.arg)
       /\ status = "built" =>
            QueryValuesOf(descriptor.url, SetterKey(Last.op))
                = <<ExpectedJoin(Last.arg)>>

C7_Witness ==
    /\ status = "built"
    /\ Len(calls) = 3
    /\ calls[2] = [op |-> "image_sizes", arg |-> <<"a", "b", "c">>]
    /\ calls[3] = [op |-> "search_types", arg |-> <<>>]
    /\ QueryValuesOf(descriptor.url, "image_sizes") = <<"a,b,c">>
    /\ QueryValuesOf(descriptor.url, "types") = <<"">>

\* The identifier lists the batch constructors are given, joined by hand.
ExpectedIds(ids) ==
    CASE ids = <<>> -> ""
      [] ids = <<7>> -> "7"
      [] ids = <<1, 2, 3>> -> "1,2,3"

BatchKey(op) == IF op = "favorite_works_remove" THEN "ids" ELSE "delete_ids"

\* C8: favorite_works_remove(ids) and following_remove(ids) take zero, one
\* or many identifiers and give a builder that builds: the map is
\* publicity=public plus the identifiers in decimal, comma-joined in the
\* caller's order, under ids (favorite_works_remove) or delete_ids
\* (following_remove); build of such a builder never panics.
C8_BatchIds ==
    (Len(calls) >= 1
     /\ calls[1].op \in {"favorite_works_remove", "following_remove"})
    => LET expected == {<<"publicity", "public">>,
                        <<BatchKey(calls[1].op), ExpectedIds(calls[1].arg)>>}
       IN  /\ status # "build_panicked"
           /\ (Len(calls) = 1 /\ Returned) =>
                MapPairs(builder.params) = expected
           /\ (Len(calls) = 1 /\ status = "built") =>
                LET pairs == QueryPairs(descriptor.url)
                IN  {pairs[i] : i \in 1..Len(pairs)} = expected

C8_Witness ==
    /\ status = "built"
    /\ calls = <<[op |-> "favorite_works_remove", arg |-> <<>>]>>
    /\ QueryValuesOf(descriptor.url, "ids") = <<"">>
    /\ QueryValuesOf(descriptor.url, "publicity") = <<"public">>

\* Those of DateValues that name a day of the calendar as year-month-day.
CalendarDates == {"2018-2-22", "2018-02-22", "2016-2-29"}

\* C9: date either succeeds or aborts.  Given a calendar date, it returns a
\* builder whose date parameter is the string as given, every other
\* parameter as before; given anything else it panics, no builder is left,
\* and no built descriptor ever follows a date call with such a string.
C9_DateAllOrNothing ==
    /\ (Len(calls) >= 2 /\ Last.op = "date" /\ Last.arg \in CalendarDates)
       => /\ status # "date_panicked"
          /\ DOMAIN builder.params = (DOMAIN prev.params) \cup {"date"}
          /\ builder.params["date"] = Last.arg
          /\ \A k \in (DOMAIN prev.params) \ {"date"} :
                builder.params[k] = prev.params[k]
          /\ builder.request = prev.request
    /\ (Len(calls) >= 2 /\ Last.op = "date" /\ Last.arg \notin CalendarDates)
       => status = "date_panicked" /\ builder = NoValue /\ descriptor = NoValue
    /\ status = "built"
       => \A i \in 1..Len(calls) :
            calls[i].op = "date" => calls[i].arg \in CalendarDates

C9_Witness ==
    /\ status = "builder"
    /\ Len(calls) = 3
    /\ Last = [op |-> "date", arg |-> "2018-2-22"]
    /\ builder.params["date"] = "2018-2-22"
    /\ DOMAIN prev.params # {}

EnumSetters ==
    {"publicity", "ranking_mode", "search_period", "search_mode", "search_order"}

EnumVariants(op) ==
    CASE op = "publicity" -> PublicityVariants
      [] op = "ranking_mode" -> RankingModeVariants
      [] op = "search_period" -> SearchPeriodVariants
      [] op = "search_mode" -> SearchModeVariants
      [] op = "search_order" -> SearchOrderVariants

\* C10: the tokens of an enumerated option type are non-empty and differ
\* from variant to variant.  Seen where the tokens go: the token an enum
\* setter stored is not empty and is the token of no other variant of its
\* type; the path ranking(t) made names t and no other ranking type.
C10_EnumTokens ==
    /\ (Returned /\ Len(calls) >= 2 /\ Last.op \in EnumSetters)
       => LET token == builder.params[SetterKey(Last.op)]
          IN  /\ token # ""
              /\ \A w \in EnumVariants(Last.op) \ {Last.arg} :
                    Rendered(Last.op, w) # token
    /\ (Fresh /\ calls[1].op = "ranking")
       => LET path == builder.request.url.path
          IN  /\ path # "/v1/ranking/.json"
              /\ \A w \in RankingTypeVariants \ {calls[1].arg} :
                    "/v1/ranking/" \o RankingType_as_str(w) \o ".json" # path

C10_Witness ==
    /\ status = "builder"
    /\ calls[1].op = "ranking"
    /\ Last = [op |-> "ranking_mode", arg |-> "DailyR18"]
    /\ builder.params["mode"] = "daily_r18"

(***************************************************************************)
(* C11 .. C13                                                              *)
(***************************************************************************)
\* C11: each boolean parameter has one on/off token pair.  In every builder
\* that came from a catalog constructor, whatever setters followed, the
\* value of show_r18 (when present) is "1" or "0" and the values of
\* include_stats and include_sanity_level (when present) are "true" or
\* "false", whether an endpoint default or a setter put them there.
C11_BooleanTokens ==
    (status = "builder" /\ calls[1].op # "new")
    => /\ "show_r18" \in DOMAIN builder.params
            => builder.params["show_r18"] \in {"1", "0"}
       /\ "include_stats" \in DOMAIN builder.params
            => builder.params["include_stats"] \in {"true", "false"}
       /\ "include_sanity_level" \in DOMAIN builder.params
            => builder.params["include_sanity_level"] \in {"true", "false"}

\* The method each constructor is documented to give; new is given it.
ConstructorMethod(call) ==
    CASE call.op = "new" -> call.arg[1]
      [] call.op \in {"favorite_work_add", "following_add"} -> "POST"
      [] call.op \in {"favorite_works_remove", "following_remove"} -> "DELETE"
      [] OTHER -> "GET"

\* C12: the constructor fixes the HTTP method and nothing changes it:
\* favorite_work_add and following_add give POST, favorite_works_remove and
\* following_remove give DELETE, every other catalog constructor gives GET;
\* the builder keeps that method through every setter, and the built
\* descriptor has it.
C12_MethodFixed ==
    /\ status \in {"builder", "built", "build_panicked"}
       => builder.request.method = ConstructorMethod(calls[1])
    /\ status = "built" => descriptor.method = ConstructorMethod(calls[1])

\* A DELETE request built after two setter calls.
C12_Witness ==
    /\ status = "built"
    /\ calls[1].op = "following_remove"
    /\ Len(calls) = 3
    /\ descriptor.method = "DELETE"

\* C13: the headers of every builder and of every built descriptor are one
\* entry, referer, with the value http://spapi.pixiv.net/; no constructor,
\* setter or build adds an authorization header or changes the referer.
C13_OnlyReferer ==
    /\ status \in {"builder", "built", "build_panicked"}
       => /\ DOMAIN builder.request.headers = {"referer"}
          /\ builder.request.headers["referer"] = "http://spapi.pixiv.net/"
    /\ status = "built"
       => /\ DOMAIN descriptor.headers = {"referer"}
          /\ descriptor.headers["referer"] = "http://spapi.pixiv.net/"

C13_Witness ==
    /\ status = "built"
    /\ Len(calls) = 3
    /\ calls[1].op = "favorite_work_add"
    /\ DOMAIN descriptor.headers = {"referer"}

(***************************************************************************)
(* C17, C18                                                                *)
(***************************************************************************)
ModeSetters == {"ranking_mode", "search_mode"}

\* The positions in calls of the calls to ranking_mode and search_mode.
ModeCalls == {i \in 2..Len(calls) : calls[i].op \in ModeSetters}

LastModeCall == calls[CHOOSE i \in ModeCalls : \A j \in ModeCalls : j <= i]

\* C17: ranking_mode and search_mode write the one key mode.  After calls to
\* either or both, the map has mode with the token of whichever of them was
\* called last, and a built URL has mode once with that token; called on a
\* builder that had a mode already (the default of ranking or search_works,
\* or the other setter's value) the call replaces it and adds no parameter.
C17_SharedModeKey ==
    (Returned /\ ModeCalls # {})
    => /\ "mode" \in DOMAIN builder.params
       /\ builder.params["mode"] = Rendered(LastModeCall.op, LastModeCall.arg)
       /\ status = "built" =>
            QueryValuesOf(descriptor.url, "mode")
                = <<Rendered(LastModeCall.op, LastModeCall.arg)>>
       /\ (Last.op \in ModeSetters /\ "mode" \in DOMAIN prev.params)
            => DOMAIN builder.params = DOMAIN prev.params

\* Both setters called on a ranking builder, search_mode last, then built.
C17_Witness ==
    /\ status = "built"
    /\ Len(calls) = 3
    /\ calls[1].op = "ranking"
    /\ calls[2] = [op |-> "ranking_mode", arg |-> "Weekly"]
    /\ calls[3] = [op |-> "search_mode", arg |-> "Tag"]
    /\ builder.params["mode"] = "tag"
    /\ QueryValuesOf(descriptor.url, "mode") = <<"tag">>

\* The key each typed setter passes to raw_param.
WrittenKey(op) == IF op = "per_page" THEN "value" ELSE SetterKey(op)

\* The keys whose presence or value differs between two parameter maps.
ChangedKeys(before, after) ==
    {k \in (DOMAIN before) \cup (DOMAIN after) :
        IF k \in DOMAIN before /\ k \in DOMAIN after
        THEN before[k] # after[k]
        ELSE TRUE}

BuilderIds == {1, 2}

\* Setter calls per builder.
MaxOwnSetters == 2

\* Mutant: the maps of all builders are one map, seeded by the first.
Alloc_shared(h, params) ==
    IF Len(h) > 0 THEN [heap |-> h, addr |-> 1]
    ELSE [heap |-> Append(h, params), addr |-> Len(h) + 1]

\* collect() into a HashMap: a new map at an address no builder holds.
Alloc(h, params) == [heap |-> Append(h, params), addr |-> Len(h) + 1]

\* The constructor a call names, applied to the call's argument.
CallConstructor(call) ==
    CASE call.op = "bad_words" -> bad_words
      [] call.op = "work" -> work(call.arg)
      [] call.op = "user" -> user(call.arg)
      [] call.op = "feed" -> feed
      [] call.op = "favorite_works" -> favorite_works
      [] call.op = "favorite_work_add" -> favorite_work_add(call.arg)
      [] call.op = "favorite_works_remove" -> favorite_works_remove(call.arg)
      [] call.op = "following_works" -> following_works
      [] call.op = "following" -> following
      [] call.op = "following_add" -> following_add(call.arg)
      [] call.op = "following_remove" -> following_remove(call.arg)
      [] call.op = "user_works" -> user_works(call.arg)
      [] call.op = "user_favorite_works" -> user_favorite_works(call.arg)
      [] call.op = "user_feed" -> user_feed(call.arg)
      [] call.op = "user_following" -> user_following(call.arg)
      [] call.op = "ranking" -> ranking(call.arg)
      [] call.op = "search_works" -> search_works(call.arg)
      [] call.op = "latest_works" -> latest_works
      [] call.op = "illustration" -> illustration(call.arg)

\* The setter a call names, applied to self and the call's argument.
CallSetter(self, call) ==
    CASE call.op = "page" -> page(self, call.arg)
      [] call.op = "per_page" -> per_page(self, call.arg)
      [] call.op = "max_id" -> max_id(self, call.arg)
      [] call.op = "image_sizes" -> image_sizes(self, call.arg)
      [] call.op = "profile_image_sizes" -> profile_image_sizes(self, call.arg)
      [] call.op = "publicity" -> publicity(self, call.arg)
      [] call.op = "show_r18" -> show_r18(self, call.arg)
      [] call.op = "include_stats" -> include_stats(self, call.arg)
      [] call.op = "include_sanity_level" -> include_sanity_level(self, call.arg)
      [] call.op = "ranking_mode" -> ranking_mode(self, call.arg)
      [] call.op = "search_period" -> search_period(self, call.arg)
      [] call.op = "search_mode" -> search_mode(self, call.arg)
      [] call.op = "search_order" -> search_order(self, call.arg)
      [] call.op = "search_sort" -> search_sort(self, call.arg)
      [] call.op = "search_types" -> search_types(self, call.arg)

\* The constructor calls and the setter calls made on the builders.
CatalogCalls ==
    {[op |-> "work", arg |-> 42],
     [op |-> "favorite_works", arg |-> <<>>],
     [op |-> "ranking", arg |-> "Illust"]}

SetterCalls ==
    {[op |-> "page", arg |-> 2],
     [op |-> "page", arg |-> 50],
     [op |-> "per_page", arg |-> 2],
     [op |-> "image_sizes", arg |-> <<"large">>]}

NoBuilder ==
    [status |-> "none", request |-> NoValue, params |-> 0, calls |-> <<>>,
     descriptor |-> NoValue, order |-> 0]

\* The builder b as a value: its request and the map at its address.
SelfOf(b) == [request |-> builders[b].request, params |-> heap[builders[b].params]]

BuildersInit ==
    /\ status = "none"
    /\ builder = NoValue
    /\ descriptor = NoValue
    /\ calls = <<>>
    /\ prev = NoValue
    /\ search_arg = NoValue
    /\ iterator = NoValue
    /\ yielded = <<>>
    /\ heap = <<>>
    /\ builders = [b \in BuilderIds |-> NoBuilder]

ConstructOn(b) ==
    /\ builders[b].status = "none"
    /\ \E call \in CatalogCalls :
        \E r \in {CallConstructor(call)} :
            \E a \in {Alloc(heap, r.params)} :
                /\ heap' = a.heap
                /\ builders' = [builders EXCEPT ![b] =
                        [status |-> "builder", request |-> r.request,
                         params |-> a.addr, calls |-> <<call>>,
                         descriptor |-> NoValue, order |-> 0]]
    /\ UNCHANGED <<vars, iterVars>>

SetOn(b) ==
    /\ builders[b].status = "builder"
    /\ Len(builders[b].calls) <= MaxOwnSetters
    /\ \E call \in SetterCalls :
        \E r \in {CallSetter(SelfOf(b), call)} :
            /\ heap' = [heap EXCEPT ![builders[b].params] = r.params]
            /\ builders' = [builders EXCEPT ![b].request = r.request,
                                            ![b].calls = Append(@, call)]
    /\ UNCHANGED <<vars, iterVars>>

BuildOn(b) ==
    /\ builders[b].status = "builder"
    /\ \E i \in 0..(NumOrders - 1) :
        \E r \in {build(SelfOf(b), IterationOrder(DOMAIN SelfOf(b).params, i))} :
            builders' = [builders EXCEPT
                ![b].status = IF r.ok THEN "built" ELSE "build_panicked",
                ![b].descriptor = IF r.ok THEN r.request ELSE NoValue,
                ![b].order = i]
    /\ UNCHANGED <<heap, vars, iterVars>>

BuildersNext ==
    \E b \in BuilderIds :
        \/ ConstructOn(b)
        \/ SetOn(b)
        \/ BuildOn(b)

SpecBuilders == BuildersInit /\ [][BuildersNext]_allVars

(***************************************************************************)
(* C14, C15                                                                *)
(***************************************************************************)
\* The builder a sequence of calls gives when nothing else runs: the
\* constructor's value with the setters applied one after the other.
RECURSIVE ReplayFrom(_, _, _)
ReplayFrom(self, cs, i) ==
    IF i > Len(cs) THEN self
    ELSE ReplayFrom(CallSetter(self, cs[i]), cs, i + 1)

Replay(cs) == ReplayFrom(CallConstructor(cs[1]), cs, 2)

\* C14: builders share no state.  However the constructor, setter and build
\* calls of two builders interleave, each builder's request and parameter
\* map are what its own calls give when run alone, and its built descriptor
\* is what build gives of that; so a builder fresh from a constructor has
\* the endpoint's defaults whatever was overridden on another builder.
C14_NoSharedState ==
    \A b \in BuilderIds :
        builders[b].status # "none"
        => LET alone == Replay(builders[b].calls)
           IN  /\ heap[builders[b].params] = alone.params
               /\ builders[b].request = alone.request
               /\ builders[b].status # "builder"
                  => LET r == build(alone,
                                IterationOrder(DOMAIN alone.params,
                                               builders[b].order))
                     IN  /\ r.ok
                         /\ builders[b].status = "built"
                         /\ builders[b].descriptor = r.request

\* Two builders of one constructor: the first with overrides and built, the
\* second with the defaults untouched.
C14_Witness ==
    /\ builders[1].status = "built"
    /\ Len(builders[1].calls) = 3
    /\ builders[2].status = "builder"
    /\ builders[2].calls = <<builders[1].calls[1]>>
    /\ builders[1].calls[1].op = "favorite_works"
    /\ heap[builders[1].params]["page"] = "50"
    /\ heap[builders[2].params]["page"] = "1"

\* The keys the setter calls of a call sequence wrote.
KeysWritten(cs) == {WrittenKey(cs[i].op) : i \in 2..Len(cs)}

\* For each such key the value of the last call that wrote it.
LastValues(cs) ==
    [k \in KeysWritten(cs) |->
        LET hits == {i \in 2..Len(cs) : WrittenKey(cs[i].op) = k}
            last == CHOOSE i \in hits : \A j \in hits : j <= i
        IN  Rendered(cs[last].op, cs[last].arg)]

\* The decoded key/value pairs of a descriptor's query, as a set.
DecodedPairs(d) ==
    LET pairs == QueryPairs(d.url)
    IN  {pairs[i] : i \in 1..Len(pairs)}

\* C15: the order of insertion does not show in the output.  Two builders
\* of one constructor call whose setter calls end with the same last value
\* for each key (the same calls in another order, or more calls of which
\* the last ones agree) have equal parameter maps, and when both are built,
\* in whatever order each map is iterated, the two URLs decode to the same
\* set of key=value pairs.
C15_OrderIrrelevant ==
    \A a, b \in BuilderIds :
        (/\ builders[a].status # "none"
         /\ builders[b].status # "none"
         /\ builders[a].calls[1] = builders[b].calls[1]
         /\ LastValues(builders[a].calls) = LastValues(builders[b].calls))
        => /\ heap[builders[a].params] = heap[builders[b].params]
           /\ (builders[a].status = "built" /\ builders[b].status = "built")
              => DecodedPairs(builders[a].descriptor)
                    = DecodedPairs(builders[b].descriptor)

\* The same two setter calls in the two orders, both built, the maps
\* iterated in different orders: the URLs differ and decode alike.
C15_Witness ==
    /\ builders[1].status = "built"
    /\ builders[2].status = "built"
    /\ builders[1].calls = <<[op |-> "favorite_works", arg |-> <<>>],
                             [op |-> "page", arg |-> 2],
                             [op |-> "image_sizes", arg |-> <<"large">>]>>
    /\ builders[2].calls = <<[op |-> "favorite_works", arg |-> <<>>],
                             [op |-> "image_sizes", arg |-> <<"large">>],
                             [op |-> "page", arg |-> 2]>>
    /\ builders[1].order # builders[2].order
    /\ UriToString(builders[1].descriptor.url)
         # UriToString(builders[2].descriptor.url)
    /\ DecodedPairs(builders[1].descriptor) = DecodedPairs(builders[2].descriptor)

(***************************************************************************)
(* IllustrationSearchRequestArg and its iterator.  The enums SearchTarget, *)
(* SearchSort and Duration are in crate::enums; each variant has one       *)
(* lower-case token.                                                       *)
(***************************************************************************)
SearchTargetVariants == {"TagsPartial", "TagsExact", "TitleAndCaption"}

SearchTarget_as_str(v) ==
    CASE v = "TagsPartial" -> "partial_match_for_tags"
      [] v = "TagsExact" -> "exact_match_for_tags"
      [] v = "TitleAndCaption" -> "title_and_caption"

SearchSortVariants == {"DateDescending", "DateAscending"}

SearchSort_as_str(v) ==
    CASE v = "DateDescending" -> "date_desc"
      [] v = "DateAscending" -> "date_asc"

DurationVariants == {"LastDay", "LastWeek", "LastMonth"}

Duration_as_str(v) ==
    CASE v = "LastDay" -> "within_last_day"
      [] v = "LastWeek" -> "within_last_week"
      [] v = "LastMonth" -> "within_last_month"

\* Option<T>.
None == [some |-> FALSE]

Some(x) == [some |-> TRUE, value |-> x]

IllustrationSearchRequestArg_new(word) ==
    [word |-> word,
     search_target |-> "TagsPartial",
     sort |-> "DateDescending",
     duration |-> None,
     offset |-> None,
     filter |-> None]

set_search_target(self, search_target) ==
    [self EXCEPT !.search_target = search_target]

set_sort(self, sort) == [self EXCEPT !.sort = sort]

set_duration(self, duration) == [self EXCEPT !.duration = Some(duration)]

set_offset(self, offset) == [self EXCEPT !.offset = Some(offset)]

into_iter(self) == [vec |-> self, index |-> 0]

\* The match on self.index in next: the item of that index, if any, and
\* self.vec after it (take() leaves None in the field it read).
MatchIndex(self) ==
    CASE self.index = 0 ->
            [result |-> Some(<<"word", self.vec.word>>), vec |-> self.vec]
      [] self.index = 1 ->
            [result |-> Some(<<"search_target",
                               SearchTarget_as_str(self.vec.search_target)>>),
             vec |-> self.vec]
      [] self.index = 2 ->
            [result |-> Some(<<"sort", SearchSort_as_str(self.vec.sort)>>),
             vec |-> self.vec]
      [] self.index = 3 ->
            [result |-> IF self.vec.duration.some
                        THEN Some(<<"duration",
                                    Duration_as_str(self.vec.duration.value)>>)
                        ELSE None,
             vec |-> [self.vec EXCEPT !.duration = None]]
      [] self.index = 4 ->
            [result |-> IF self.vec.offset.some
                        THEN Some(<<"offset", to_string(self.vec.offset.value)>>)
                        ELSE None,
             vec |-> [self.vec EXCEPT !.offset = None]]
      [] self.index = 5 ->
            [result |-> IF self.vec.filter.some
                        THEN Some(<<"filter", self.vec.filter.value>>)
                        ELSE None,
             vec |-> [self.vec EXCEPT !.filter = None]]

\* The loop of next: past index 5 it returns None and leaves the iterator
\* as it is; else it takes the item of the index, moves the index on and
\* returns the item, or goes round again when there was none.
RECURSIVE NextLoop(_)
NextLoop(self) ==
    IF self.index > 5 THEN [iterator |-> self, result |-> None]
    ELSE LET m == MatchIndex(self)
             advanced == [vec |-> m.vec, index |-> self.index + 1]
         IN  IF m.result.some
             THEN [iterator |-> advanced, result |-> m.result]
             ELSE NextLoop(advanced)

\* Mutant: next goes round once, and returns None for a field that is unset.
IllustrationSearchParamIterator_next_once(self) ==
    IF self.index > 5 THEN [iterator |-> self, result |-> None]
    ELSE LET m == MatchIndex(self)
         IN  [iterator |-> [vec |-> m.vec, index |-> self.index + 1],
              result |-> m.result]

IllustrationSearchParamIterator_next(self) == NextLoop(self)

\* Calls of next on one iterator.
MaxNext == 8

Words == {"cat", "a b"}

OffsetValues == {7, 50}

FilterValues == {"for_ios"}

Optional(S) == {None} \cup {Some(x) : x \in S}

IterInit ==
    /\ status = "none"
    /\ builder = NoValue
    /\ descriptor = NoValue
    /\ calls = <<>>
    /\ prev = NoValue
    /\ heap = <<>>
    /\ builders = NoValue
    /\ search_arg = NoValue
    /\ iterator = NoValue
    /\ yielded = <<>>

ArgNew ==
    /\ search_arg = NoValue
    /\ \E word \in Words : search_arg' = IllustrationSearchRequestArg_new(word)
    /\ UNCHANGED <<iterator, yielded, vars, buildersVars>>

\* The derived Deserialize gives a value with any fields.
ArgDeserialize ==
    /\ search_arg = NoValue
    /\ \E word \in Words, t \in SearchTargetVariants, s \in SearchSortVariants,
          d \in Optional(DurationVariants), o \in Optional(OffsetValues),
          f \in Optional(FilterValues) :
            search_arg' = [word |-> word, search_target |-> t, sort |-> s,
                           duration |-> d, offset |-> o, filter |-> f]
    /\ UNCHANGED <<iterator, yielded, vars, buildersVars>>

\* A set_ call on the value, before into_iter takes it.
ArgSet(value) ==
    /\ search_arg # NoValue
    /\ iterator = NoValue
    /\ search_arg' = value
    /\ UNCHANGED <<iterator, yielded, vars, buildersVars>>

SetSearchTarget ==
    \E v \in SearchTargetVariants : ArgSet(set_search_target(search_arg, v))

SetSort == \E v \in SearchSortVariants : ArgSet(set_sort(search_arg, v))

SetDuration == \E v \in DurationVariants : ArgSet(set_duration(search_arg, v))

SetOffset == \E v \in OffsetValues : ArgSet(set_offset(search_arg, v))

\* into_iter takes the value; search_arg keeps it as it was given.
IntoIter ==
    /\ search_arg # NoValue
    /\ iterator = NoValue
    /\ iterator' = into_iter(search_arg)
    /\ UNCHANGED <<search_arg, yielded, vars, buildersVars>>

IterNext ==
    /\ iterator # NoValue
    /\ Len(yielded) < MaxNext
    /\ \E r \in {IllustrationSearchParamIterator_next(iterator)} :
        /\ iterator' = r.iterator
        /\ yielded' = Append(yielded, r.result)
    /\ UNCHANGED <<search_arg, vars, buildersVars>>

IterSteps ==
    \/ ArgNew
    \/ ArgDeserialize
    \/ SetSearchTarget
    \/ SetSort
    \/ SetDuration
    \/ SetOffset
    \/ IntoIter
    \/ IterNext

SpecIter == IterInit /\ [][IterSteps]_allVars

(***************************************************************************)
(* C16                                                                     *)
(***************************************************************************)
\* The pairs a value is to give: word, search_target and sort, then
\* duration, offset and filter, each of these three only when it is set.
ExpectedPairs(a) ==
    << <<"word", a.word>>,
       <<"search_target", SearchTarget_as_str(a.search_target)>>,
       <<"sort", SearchSort_as_str(a.sort)>> >>
    \o (IF a.duration = None THEN <<>>
        ELSE << <<"duration", Duration_as_str(a.duration.value)>> >>)
    \o (IF a.offset = None THEN <<>>
        ELSE << <<"offset", Decimal(a.offset.value)>> >>)
    \o (IF a.filter = None THEN <<>>
        ELSE << <<"filter", a.filter.value>> >>)

\* C16: the calls of next on the iterator of a value give that value's
\* pairs in the order word, search_target, sort, duration, offset, filter,
\* an unset duration, offset or filter left out and the set ones after it
\* still given, then None on every later call; no key comes twice; a value
\* from new(word) alone gives word, search_target with the token of
\* TagsPartial and sort with the token of DateDescending, and no more.
C16_IterationSequence ==
    iterator # NoValue
    => LET e == ExpectedPairs(search_arg)
       IN  /\ \A i \in 1..Len(yielded) :
                yielded[i] = IF i <= Len(e) THEN Some(e[i]) ELSE None
           /\ \A i, j \in 1..Len(yielded) :
                (i # j /\ yielded[i].some /\ yielded[j].some)
                => yielded[i].value[1] # yielded[j].value[1]
           /\ (search_arg = IllustrationSearchRequestArg_new(search_arg.word)
               /\ Len(yielded) >= 4)
              => SubSeq(yielded, 1, 4)
                    = <<Some(<<"word", search_arg.word>>),
                        Some(<<"search_target",
                               SearchTarget_as_str("TagsPartial")>>),
                        Some(<<"sort", SearchSort_as_str("DateDescending")>>),
                        None>>

\* No duration, an offset and a filter: both are given, then None twice.
C16_Witness ==
    /\ iterator # NoValue
    /\ search_arg.duration = None
    /\ search_arg.offset = Some(7)
    /\ search_arg.filter = Some("for_ios")
    /\ Len(yielded) = 7
    /\ yielded[4] = Some(<<"offset", "7">>)
    /\ yielded[5] = Some(<<"filter", "for_ios">>)
    /\ yielded[6] = None
    /\ yielded[7] = None

====
